---- MODULE Spec2Model ----
(***************************************************************************)
(* Model of cmd/put.go of dbxcli: the `put` command, its per-argument      *)
(* upload goroutines, the chunked upload session driver (uploadChunked)    *)
(* and the single-shot upload (uploadFile), together with the remote       *)
(* storage service the calls act on.                                       *)
(*                                                                         *)
(* Strings are sequences of one-character strings.  A file of size S holds *)
(* the bytes 1..S (each byte is tagged with its position in the file), so  *)
(* that a lost, repeated or reordered byte is visible.                     *)
(***************************************************************************)
EXTENDS Integers, Sequences, FiniteSets, TLC

\* ------------------------------------------------------------------ bounds
\* chunkSize is 1 << 24 in the source; the model scales it down.
chunkSize == 2
\* Largest file size contents.Stat() reports.
MaxSize == 5
\* Largest number of source arguments.
MaxArgs == 2
\* Clock ticks per second (time.Second in the model's time unit).
TicksPerSecond == 4
\* Latest reading of the clock, in ticks.
MaxNow == 7

\* ------------------------------------------------------------------ inputs
Slash == "/"
ArgChoices == { <<"a">>, <<"d", "/", "b">> }
Destinations == { <<>>, <<"/", "x", "/">>, <<"/", "x">>, <<"x">> }
ArgLists == UNION { [1..n -> ArgChoices] : n \in 0..MaxArgs }

Nil == "nil"
NoSid == 0

\* ----------------------------------------------------------- pure helpers
Min(a, b) == IF a < b THEN a ELSE b

\* The bytes of a file whose size is s.
Content(s) == [i \in 1..s |-> i]

\* strings.HasSuffix
HasSuffix(s, suffix) ==
    /\ Len(s) >= Len(suffix)
    /\ SubSeq(s, Len(s) - Len(suffix) + 1, Len(s)) = suffix

\* strings.TrimSuffix: removes one trailing occurrence of suffix.
TrimSuffix(s, suffix) ==
    IF HasSuffix(s, suffix) THEN SubSeq(s, 1, Len(s) - Len(suffix)) ELSE s

\* path.Base, step 1: strip trailing slashes.
RECURSIVE StripTrailingSlashes(_)
StripTrailingSlashes(p) ==
    IF Len(p) > 0 /\ p[Len(p)] = Slash
    THEN StripTrailingSlashes(SubSeq(p, 1, Len(p) - 1))
    ELSE p

\* Index of the last slash of p, 0 when there is none.
LastSlash(p) ==
    LET idx == { i \in 1..Len(p) : p[i] = Slash }
    IN  IF idx = {} THEN 0 ELSE CHOOSE i \in idx : \A j \in idx : j <= i

\* path.Base: the last element of a path.
Base(p) ==
    IF p = <<>> THEN <<".">>
    ELSE LET q == StripTrailingSlashes(p)
             r == SubSeq(q, LastSlash(q) + 1, Len(q))
         IN  IF r = <<>> THEN <<Slash>> ELSE r

\* fullName(fileName, destination)
fullName(fileName, destination) ==
    TrimSuffix(destination, <<Slash>>) \o <<Slash>> \o fileName

\* validatePath: the path must be non-empty and absolute-like.
validatePath(p) ==
    IF p # <<>> /\ p[1] = Slash
    THEN [path |-> p, err |-> Nil]
    ELSE [path |-> <<>>, err |-> "PathValidationError"]

\* Mutant of RoundSecond: the time is truncated to the second.
TruncateSecond(t) == t - (t % TicksPerSecond)

\* time.Time.Round(time.Second): the nearest multiple of a second, halfway
\* values rounded up.
RoundSecond(t) ==
    LET r == t % TicksPerSecond
    IN  IF r + r < TicksPerSecond THEN t - r ELSE t + TicksPerSecond - r

\* ------------------------------------------------------------------- state
VARIABLES
    args,         \* put's args: the source arguments
    now,          \* what time.Now().UTC() reads, in ticks
    destination,  \* the value of the "destination" flag ("" when not given)
    putPc,        \* position of put: "start", "loop", "returned"
    putResult,    \* the error put returned ("none" before it returns)
    idx,          \* the range loop's position in args
    waitGroup,    \* the WaitGroup counter
    err,          \* put's variable err as the goroutines write it
    task,         \* the goroutines' local state, one record per argument
    calls,        \* the remote calls each goroutine has issued, in order
    sessions,     \* remote side: the upload sessions by session id
    objects       \* remote side: the committed objects by path

vars == <<args, now, destination, putPc, putResult, idx, waitGroup, err, task,
          calls, sessions, objects>>

Tasks == 1..Len(args)

Unwritten == "unwritten"

\* A goroutine before the go statement has started it.
IdleTask ==
    [pc |-> "idle", arg |-> <<>>, checked |-> Nil, dst |-> <<>>,
     contents |-> "none",
     size |-> 0, pos |-> 0, commitInfo |-> Nil, sessionId |-> NoSid,
     written |-> 0, result |-> "none"]

\* The state put is called in, for given argument lists and clock readings.
InitWith(argLists, times) ==
    /\ args \in argLists
    /\ now \in times
    /\ destination \in Destinations
    /\ putPc = "start"
    /\ putResult = "none"
    /\ idx = 1
    /\ waitGroup = 0
    /\ err = [t \in Tasks |-> Unwritten]
    /\ task = [t \in Tasks |-> IdleTask]
    /\ calls = [t \in Tasks |-> <<>>]
    /\ sessions = [s \in {} |-> Nil]
    /\ objects = [p \in {} |-> Nil]

\* Every argument list, the clock at a whole second.
Init == InitWith(ArgLists, {0})

\* At most one argument, every clock reading.
ClockInit == InitWith({ a \in ArgLists : Len(a) <= 1 }, 0..MaxNow)

\* --------------------------------------------------------------------- put
\* Mutant of NoOperands: the check for an empty argument list is missing.
NoOperandsUnchecked == FALSE

\* if len(args) == 0
NoOperands == Len(args) = 0

\* len(args) == 0: return errors.New(missing operands)
PutNoOperands ==
    /\ putPc = "start"
    /\ NoOperands
    /\ putPc' = "returned"
    /\ putResult' = "missing operands"
    /\ UNCHANGED <<args, now, destination, idx, waitGroup, err, task, calls,
                   sessions, objects>>

\* cmd.Flags().GetString("destination"): init() registers the flag as a
\* string, so the lookup succeeds and err is nil.
PutGetDestination ==
    /\ putPc = "start"
    /\ ~NoOperands
    /\ putPc' = "loop"
    /\ UNCHANGED <<args, now, destination, putResult, idx, waitGroup, err, task,
                   calls, sessions, objects>>

\* Mutant of ArgOf: the function literal captures the loop variable, which
\* holds the last argument by the time the goroutines read it.
ArgOfLast(i) == args[Len(args)]

\* The argument the goroutine started for args[i] receives: arg is passed
\* to the function literal by value.
ArgOf(i) == args[i]

\* One iteration of the range loop: waitGroup.Add(1); go func(arg){...}(arg)
PutSpawn ==
    /\ putPc = "loop"
    /\ idx <= Len(args)
    /\ waitGroup' = waitGroup + 1
    /\ task' = [task EXCEPT ![idx].pc = "l79", ![idx].arg = ArgOf(idx)]
    /\ idx' = idx + 1
    /\ UNCHANGED <<args, now, destination, putPc, putResult, err, calls,
                   sessions, objects>>

\* Mutant of WaitReady: put does not wait for the goroutines.
WaitNoBlock == TRUE

\* waitGroup.Wait() blocks until the counter is zero.
WaitReady == waitGroup = 0

\* Mutant of JoinResult: put returns an error when a goroutine failed.
JoinResultCollected ==
    IF \E t \in Tasks : task[t].result \notin {"none", Nil}
    THEN "upload failed" ELSE Nil

\* What put returns after the join: return nil
JoinResult == Nil

\* waitGroup.Wait(); return nil
PutWait ==
    /\ putPc = "loop"
    /\ idx > Len(args)
    /\ WaitReady
    /\ putPc' = "returned"
    /\ putResult' = JoinResult
    /\ UNCHANGED <<args, now, destination, idx, waitGroup, err, task, calls,
                   sessions, objects>>

\* ------------------------------------------------- the goroutine of one arg
\* Mutant of Returned: contents.Close() is not deferred.
ReturnedNoClose(rec, e) == [rec EXCEPT !.pc = "done", !.result = e]

\* Mutant of Returned: the error is noted but the goroutine goes on to the
\* single-shot upload instead of returning.
ReturnedIgnored(rec, e) == [rec EXCEPT !.pc = "upload", !.result = e]

\* A return of the function literal: the deferred contents.Close() runs
\* when it was registered (line 89), then the deferred waitGroup.Done().
Returned(rec, e) ==
    [rec EXCEPT !.pc = "done", !.result = e,
                !.contents = IF @ = "open" THEN "closed" ELSE @]

\* What is left of the stream the progress reader wraps.
Remaining(rec) == rec.size - rec.pos

\* Mutant of ReadFrom: every call reads the file from its beginning.
ReadFromStart(rec) == 0

\* The stream position the next read starts at: the reader is shared by all
\* calls of the goroutine and never rewound.
ReadFrom(rec) == rec.pos

\* Mutant of LimitedLen: the reader's limit is one byte short.
LimitedLenShort(rec, n) == Min(n - 1, rec.size - rec.pos)

\* io.LimitedReader{R: r, N: n}: at most n bytes of what is left.
LimitedLen(rec, n) == Min(n, Remaining(rec))

\* The record of one remote call.
Call(op, ok, rec, n, sid, offset) ==
    [op |-> op, ok |-> ok, from |-> ReadFrom(rec), n |-> n, sid |-> sid,
     offset |-> offset, path |-> rec.commitInfo.path]

\* dst := "/" + path.Base(arg), no destination given.
TaskDefaultDst(t) ==
    /\ task[t].pc = "l79"
    /\ destination = <<>>
    /\ task' = [task EXCEPT ![t].dst = <<Slash>> \o Base(task[t].arg),
                            ![t].pc = "open"]
    /\ UNCHANGED <<args, now, destination, putPc, putResult, idx, waitGroup, err,
                   calls, sessions, objects>>

\* The path handed to validatePath: fullName(arg, destination)
CheckedPath(arg) == fullName(arg, destination)

\* dst, err = validatePath(fullName(arg, destination)): err is the variable
\* of put that the function literal captures, not a local of the goroutine.
\* checked keeps the path that was handed to validatePath.
TaskValidate(t) ==
    /\ task[t].pc = "l79"
    /\ destination # <<>>
    /\ LET v == validatePath(CheckedPath(task[t].arg))
       IN  /\ task' = [task EXCEPT ![t].checked = CheckedPath(task[t].arg),
                                   ![t].dst = v.path, ![t].pc = "l83"]
           /\ err' = [err EXCEPT ![t] = v.err]
    /\ UNCHANGED <<args, now, destination, putPc, putResult, idx, waitGroup,
                   calls, sessions, objects>>

\* The values a goroutine's read of the captured err can observe: its own
\* write, or the write of any other goroutine (the accesses are unordered).
ErrObservable(t) ==
    {err[t]} \cup { err[u] : u \in { w \in Tasks : err[w] # Unwritten } }

\* if err != nil { return err }, err observed non-nil
TaskValidateFailed(t) ==
    /\ task[t].pc = "l83"
    /\ \E e \in ErrObservable(t) :
          /\ e # Nil
          /\ task' = [task EXCEPT ![t] = Returned(@, e)]
    /\ waitGroup' = waitGroup - 1
    /\ UNCHANGED <<args, now, destination, putPc, putResult, idx, err, calls,
                   sessions, objects>>

\* if err != nil { return err }, err observed nil
TaskValidated(t) ==
    /\ task[t].pc = "l83"
    /\ Nil \in ErrObservable(t)
    /\ task' = [task EXCEPT ![t].pc = "open"]
    /\ UNCHANGED <<args, now, destination, putPc, putResult, idx, waitGroup, err,
                   calls, sessions, objects>>

\* contents, err := os.Open(arg); defer contents.Close(), the open succeeds
TaskOpen(t) ==
    /\ task[t].pc = "open"
    /\ task' = [task EXCEPT ![t].contents = "open", ![t].pc = "stat"]
    /\ UNCHANGED <<args, now, destination, putPc, putResult, idx, waitGroup, err,
                   calls, sessions, objects>>

\* os.Open fails: contents is nil, the deferred Close on it does nothing.
TaskOpenFailed(t) ==
    /\ task[t].pc = "open"
    /\ task' = [task EXCEPT ![t] = Returned(@, "SourceOpenError")]
    /\ waitGroup' = waitGroup - 1
    /\ UNCHANGED <<args, now, destination, putPc, putResult, idx, err, calls,
                   sessions, objects>>

\* Mutant of UseChunked: the size test written with >= instead of >.
UseChunkedGE(size) == size >= chunkSize

\* if contentsInfo.Size() > chunkSize
UseChunked(size) == size > chunkSize

\* contentsInfo, err := contents.Stat() succeeds with some size; then the
\* progress reader, commitInfo (path dst, mode overwrite, ClientModified
\* time.Now().UTC().Round(time.Second)), the client, and
\* the choice between the chunked and the single-shot path: steps local to
\* the goroutine.
TaskStat(t) ==
    /\ task[t].pc = "stat"
    /\ \E s \in 0..MaxSize :
          task' = [task EXCEPT
                     ![t].size = s,
                     ![t].commitInfo = [path |-> task[t].dst, mode |-> "overwrite",
                                        clientModified |-> RoundSecond(now)],
                     ![t].pc = IF UseChunked(s) THEN "start" ELSE "upload"]
    /\ UNCHANGED <<args, now, destination, putPc, putResult, idx, waitGroup, err,
                   calls, sessions, objects>>

\* contents.Stat() fails
TaskStatFailed(t) ==
    /\ task[t].pc = "stat"
    /\ task' = [task EXCEPT ![t] = Returned(@, "SourceStatError")]
    /\ waitGroup' = waitGroup - 1
    /\ UNCHANGED <<args, now, destination, putPc, putResult, idx, err, calls,
                   sessions, objects>>

\* ----------------------------------------------------------- uploadChunked
\* The n bytes a call reads from the stream.
Bytes(rec, n) == SubSeq(Content(rec.size), ReadFrom(rec) + 1, ReadFrom(rec) + n)

\* The remote side takes data for a session only at the session's offset.
RemoteAccepts(sid, offset) ==
    /\ sid \in DOMAIN sessions
    /\ sessions[sid].open
    /\ Len(sessions[sid].data) = offset

\* Mutant of LoopCond: the loop test written with >= instead of >.
LoopCondGE(rec) == (rec.size - rec.written) >= chunkSize

\* The session id the remote side returns to the start call of goroutine t:
\* an opaque id no other session has (ids are told apart, never compared
\* for order, so the id of t's session is named after t).
FreshSid(t) == t

\* for (sizeTotal - written) > chunkSize
LoopCond(rec) == (rec.size - rec.written) > chunkSize

\* Mutant of StartWritten: the offset starts at zero.
StartWrittenZero == chunkSize - chunkSize

\* written := chunkSize
StartWritten == chunkSize

\* dbx.UploadSessionStart(arg, &io.LimitedReader{R: r, N: chunkSize})
\* succeeds; written := chunkSize
ChunkStart(t) ==
    /\ task[t].pc = "start"
    /\ LET rec == task[t]
           n   == LimitedLen(rec, chunkSize)
           sid == FreshSid(t)
       IN  /\ sessions' = (sid :> [data |-> Bytes(rec, n), open |-> TRUE]) @@ sessions
           /\ calls' = [calls EXCEPT ![t] = Append(@, Call("start", TRUE, rec, n, NoSid, 0))]
           /\ task' = [task EXCEPT ![t].pos = rec.pos + n, ![t].sessionId = sid,
                                   ![t].written = StartWritten, ![t].pc = "l44"]
    /\ UNCHANGED <<args, now, destination, putPc, putResult, idx, waitGroup, err,
                   objects>>

\* UploadSessionStart fails: uploadChunked returns err, and so does the
\* goroutine (line 118).
ChunkStartFailed(t) ==
    /\ task[t].pc = "start"
    /\ LET rec == task[t]
           n   == LimitedLen(rec, chunkSize)
       IN  /\ calls' = [calls EXCEPT ![t] = Append(@, Call("start", FALSE, rec, n, NoSid, 0))]
           /\ task' = [task EXCEPT ![t] = Returned(@, "SessionStartError")]
    /\ waitGroup' = waitGroup - 1
    /\ UNCHANGED <<args, now, destination, putPc, putResult, idx, err, sessions,
                   objects>>

\* One iteration of the loop: UploadSessionAppend(cursor(SessionId, written),
\* &io.LimitedReader{R: r, N: chunkSize}) succeeds; written += chunkSize
ChunkAppend(t) ==
    /\ task[t].pc = "l44"
    /\ LoopCond(task[t])
    /\ LET rec == task[t]
           n   == LimitedLen(rec, chunkSize)
           sid == rec.sessionId
       IN  /\ RemoteAccepts(sid, rec.written)
           /\ sessions' = [sessions EXCEPT ![sid].data = @ \o Bytes(rec, n)]
           /\ calls' = [calls EXCEPT ![t] = Append(@, Call("append", TRUE, rec, n, sid, rec.written))]
           /\ task' = [task EXCEPT ![t].pos = rec.pos + n,
                                   ![t].written = rec.written + chunkSize]
    /\ UNCHANGED <<args, now, destination, putPc, putResult, idx, waitGroup, err,
                   objects>>

\* UploadSessionAppend fails: return
ChunkAppendFailed(t) ==
    /\ task[t].pc = "l44"
    /\ LoopCond(task[t])
    /\ LET rec == task[t]
           n   == LimitedLen(rec, chunkSize)
       IN  /\ calls' = [calls EXCEPT ![t] = Append(@, Call("append", FALSE, rec, n, rec.sessionId, rec.written))]
           /\ task' = [task EXCEPT ![t] = Returned(@, "SessionAppendError")]
    /\ waitGroup' = waitGroup - 1
    /\ UNCHANGED <<args, now, destination, putPc, putResult, idx, err, sessions,
                   objects>>

\* The loop is left: UploadSessionFinish(finishArg(cursor(SessionId, written),
\* commitInfo), r) succeeds and commits the session's data plus the rest of
\* the stream at commitInfo's path.  uploadChunked returns nil and the
\* goroutine goes on at line 122.
ChunkFinish(t) ==
    /\ task[t].pc = "l44"
    /\ ~LoopCond(task[t])
    /\ LET rec == task[t]
           n   == Remaining(rec)
           sid == rec.sessionId
       IN  /\ RemoteAccepts(sid, rec.written)
           /\ sessions' = [sessions EXCEPT ![sid].open = FALSE]
           /\ objects' = (rec.commitInfo.path :>
                            [data |-> sessions[sid].data \o Bytes(rec, n), by |-> t])
                         @@ objects
           /\ calls' = [calls EXCEPT ![t] = Append(@, Call("finish", TRUE, rec, n, sid, rec.written))]
           /\ task' = [task EXCEPT ![t].pos = rec.pos + n, ![t].pc = "upload"]
    /\ UNCHANGED <<args, now, destination, putPc, putResult, idx, waitGroup, err>>

\* UploadSessionFinish fails: return
ChunkFinishFailed(t) ==
    /\ task[t].pc = "l44"
    /\ ~LoopCond(task[t])
    /\ LET rec == task[t]
           n   == Remaining(rec)
       IN  /\ calls' = [calls EXCEPT ![t] = Append(@, Call("finish", FALSE, rec, n, rec.sessionId, rec.written))]
           /\ task' = [task EXCEPT ![t] = Returned(@, "SessionFinishError")]
    /\ waitGroup' = waitGroup - 1
    /\ UNCHANGED <<args, now, destination, putPc, putResult, idx, err, sessions,
                   objects>>

\* -------------------------------------------------------------- uploadFile
\* uploadFile(dbx, commitInfo, progressbar): dbx.Upload sends what is left
\* of the stream and, in mode overwrite, replaces the object at the path.
\* It succeeds; return nil.
TaskUpload(t) ==
    /\ task[t].pc = "upload"
    /\ LET rec == task[t]
           n   == Remaining(rec)
       IN  /\ objects' = (rec.commitInfo.path :> [data |-> Bytes(rec, n), by |-> t])
                         @@ objects
           /\ calls' = [calls EXCEPT ![t] = Append(@, Call("upload", TRUE, rec, n, NoSid, 0))]
           /\ task' = [task EXCEPT ![t] = Returned([@ EXCEPT !.pos = rec.pos + n], Nil)]
    /\ waitGroup' = waitGroup - 1
    /\ UNCHANGED <<args, now, destination, putPc, putResult, idx, err, sessions>>

\* dbx.Upload fails: return fmt.Errorf("Did not upload %s", arg)
TaskUploadFailed(t) ==
    /\ task[t].pc = "upload"
    /\ LET rec == task[t]
           n   == Remaining(rec)
       IN  /\ calls' = [calls EXCEPT ![t] = Append(@, Call("upload", FALSE, rec, n, NoSid, 0))]
           /\ task' = [task EXCEPT ![t] = Returned(@, "Did not upload")]
    /\ waitGroup' = waitGroup - 1
    /\ UNCHANGED <<args, now, destination, putPc, putResult, idx, err, sessions,
                   objects>>

\* ------------------------------------------------------------ specification
Next ==
    \/ PutNoOperands
    \/ PutGetDestination
    \/ PutSpawn
    \/ PutWait
    \/ \E t \in Tasks : TaskDefaultDst(t)
    \/ \E t \in Tasks : TaskValidate(t)
    \/ \E t \in Tasks : TaskValidateFailed(t)
    \/ \E t \in Tasks : TaskValidated(t)
    \/ \E t \in Tasks : TaskOpen(t)
    \/ \E t \in Tasks : TaskOpenFailed(t)
    \/ \E t \in Tasks : TaskStat(t)
    \/ \E t \in Tasks : TaskStatFailed(t)
    \/ \E t \in Tasks : ChunkStart(t)
    \/ \E t \in Tasks : ChunkStartFailed(t)
    \/ \E t \in Tasks : ChunkAppend(t)
    \/ \E t \in Tasks : ChunkAppendFailed(t)
    \/ \E t \in Tasks : ChunkFinish(t)
    \/ \E t \in Tasks : ChunkFinishFailed(t)
    \/ \E t \in Tasks : TaskUpload(t)
    \/ \E t \in Tasks : TaskUploadFailed(t)

Spec == Init /\ [][Next]_vars

\* The next call of a goroutine that is in uploadChunked's loop or past it,
\* with either outcome.
SessionStep(t) ==
    /\ t \in Tasks
    /\ \/ ChunkAppend(t)
       \/ ChunkAppendFailed(t)
       \/ ChunkFinish(t)
       \/ ChunkFinishFailed(t)

\* Every goroutine keeps running and every remote call returns.
FairSpec == Spec /\ \A t \in 1..MaxArgs : WF_vars(SessionStep(t))

\* The same program, run on one argument at every clock reading.
ClockSpec == ClockInit /\ [][Next]_vars

\* ------------------------------------------------------------------ claims
\* The calls of goroutine t with operation op, in order.
CallsOf(t, op) == SelectSeq(calls[t], LAMBDA c : c.op = op)

\* The bytes carried by the first k calls of a call sequence.
RECURSIVE Carried(_, _)
Carried(cs, k) == IF k = 0 THEN 0 ELSE Carried(cs, k - 1) + cs[k].n

\* The goroutine's session ran to a successful finish.
SessionFinished(t) ==
    \E i \in 1..Len(calls[t]) : calls[t][i].op = "finish" /\ calls[t][i].ok

\* C1: a file larger than chunkSize whose session calls all succeed gets one
\* UploadSessionStart with chunkSize bytes, floor((S - chunkSize - 1) /
\* chunkSize) UploadSessionAppend calls with chunkSize bytes each, and one
\* UploadSessionFinish with the remaining S - written bytes, between 1 and
\* chunkSize of them.
C1_ChunkedCallCounts ==
    \A t \in Tasks :
        (task[t].size > chunkSize /\ SessionFinished(t)) =>
            LET S  == task[t].size
                st == CallsOf(t, "start")
                ap == CallsOf(t, "append")
                fi == CallsOf(t, "finish")
            IN  /\ Len(st) = 1
                /\ st[1].n = chunkSize
                /\ Len(ap) = (S - chunkSize - 1) \div chunkSize
                /\ \A i \in 1..Len(ap) : ap[i].n = chunkSize
                /\ Len(fi) = 1
                /\ fi[1].n = S - fi[1].offset
                /\ fi[1].n >= 1
                /\ fi[1].n <= chunkSize

\* A session with at least one append has finished.
C1_Witness ==
    \E t \in Tasks :
        /\ task[t].size > chunkSize
        /\ SessionFinished(t)
        /\ Len(CallsOf(t, "append")) >= 1

\* C2: the single-shot Upload is issued only for files of at most chunkSize
\* bytes, and no goroutine uses both the session path and the single-shot
\* path.
C2_SingleShotOnlySmall ==
    \A t \in Tasks :
        /\ CallsOf(t, "upload") # <<>> => task[t].size <= chunkSize
        /\ ~(CallsOf(t, "upload") # <<>> /\ CallsOf(t, "start") # <<>>)

\* C3: a file of at most chunkSize bytes (chunkSize itself included) gets no
\* session call and at most one Upload, and when its goroutine returns nil
\* exactly one Upload that carried all S bytes.
C3_SmallFileSingleShot ==
    \A t \in Tasks :
        (task[t].pc \in {"upload", "done"} /\ task[t].size <= chunkSize) =>
            /\ \A i \in 1..Len(calls[t]) : calls[t][i].op = "upload"
            /\ Len(calls[t]) <= 1
            /\ task[t].result = Nil =>
                  /\ Len(calls[t]) = 1
                  /\ calls[t][1].ok
                  /\ calls[t][1].from = 0
                  /\ calls[t][1].n = task[t].size

\* A file of exactly chunkSize bytes went up in one Upload.
C3_Witness ==
    \E t \in Tasks :
        /\ task[t].pc = "done"
        /\ task[t].result = Nil
        /\ task[t].size = chunkSize
        /\ Len(calls[t]) = 1

\* C4: when a goroutine has returned nil, the object it committed at its
\* destination path holds the bytes of its file.
C4_RemoteHoldsFile ==
    \A t \in Tasks :
        (task[t].pc = "done" /\ task[t].result = Nil) =>
            /\ task[t].commitInfo.path \in DOMAIN objects
            /\ objects[task[t].commitInfo.path].by = t =>
                  objects[task[t].commitInfo.path].data = Content(task[t].size)

\* C5: every call of a goroutine starts reading where the calls before it
\* stopped (the stream is read once, no byte goes into two calls), the calls
\* never carry more than S bytes, and exactly S when the goroutine returns
\* nil.
C5_BytesSentOnce ==
    \A t \in Tasks :
        /\ \A i \in 1..Len(calls[t]) :
              calls[t][i].from = IF i = 1 THEN 0
                                 ELSE calls[t][i - 1].from + calls[t][i - 1].n
        /\ Carried(calls[t], Len(calls[t])) <= task[t].size
        /\ (task[t].pc = "done" /\ task[t].result = Nil) =>
              Carried(calls[t], Len(calls[t])) = task[t].size

\* A chunked upload with an append has returned nil.
C5_Witness ==
    \E t \in Tasks :
        /\ task[t].pc = "done"
        /\ task[t].result = Nil
        /\ Len(calls[t]) >= 4
        /\ Carried(calls[t], Len(calls[t])) = 2 * chunkSize + 1

\* C6: put starts one goroutine per argument, each with its own argument,
\* the WaitGroup counts the goroutines that are running, and put returns
\* only when every one of them has returned.
C6_AllTasksJoined ==
    /\ \A t \in Tasks : (task[t].pc # "idle") <=> (t < idx)
    /\ \A t \in Tasks : task[t].pc # "idle" => task[t].arg = args[t]
    /\ putPc # "returned" =>
          waitGroup = Cardinality({ t \in Tasks : task[t].pc \notin {"idle", "done"} })
    /\ (putPc = "returned" /\ Len(args) >= 1) =>
          \A t \in Tasks : task[t].pc = "done"

\* put has returned from two goroutines with different arguments, one that
\* succeeded and one that failed.
C6_Witness ==
    /\ putPc = "returned"
    /\ \E t, u \in Tasks :
          /\ args[t] # args[u]
          /\ task[t].pc = "done" /\ task[t].result = Nil
          /\ task[u].pc = "done" /\ task[u].result # Nil

\* C7: no variable is written by more than one goroutine; the one variable
\* goroutines write that is not local to them is put's err.
C7_NoSharedWrites ==
    Cardinality({ t \in Tasks : err[t] # Unwritten }) <= 1

\* The remote path of the goroutine for args[t], from its own argument.
OwnDst(t) ==
    IF destination = <<>> THEN <<Slash>> \o Base(args[t])
    ELSE validatePath(fullName(args[t], destination)).path

\* The path validation of the goroutine's own path succeeds.
OwnValidationOk(t) ==
    destination = <<>> \/ validatePath(fullName(args[t], destination)).err = Nil

\* C8: a goroutine whose own validation, open, stat and remote calls all
\* succeed returns nil, having made its calls, the last of them a commit,
\* for the path of its own argument, whatever the other goroutines did.
C8_TasksIndependent ==
    \A t \in Tasks :
        ( /\ task[t].pc = "done"
          /\ OwnValidationOk(t)
          /\ task[t].result \notin {"SourceOpenError", "SourceStatError"}
          /\ \A i \in 1..Len(calls[t]) : calls[t][i].ok ) =>
            /\ task[t].result = Nil
            /\ Len(calls[t]) >= 1
            /\ \A i \in 1..Len(calls[t]) : calls[t][i].path = OwnDst(t)
            /\ calls[t][Len(calls[t])].op \in {"finish", "upload"}

\* With a destination given, one goroutine has succeeded next to one that
\* failed.
C8_Witness ==
    /\ destination # <<>>
    /\ \E t, u \in Tasks :
          /\ args[t] # args[u]
          /\ task[t].pc = "done" /\ task[t].result = Nil
          /\ task[u].pc = "done" /\ task[u].result # Nil

\* C9: with a non-empty argument list put returns nil, whatever the
\* goroutines returned.
C9_ErrorsSwallowed ==
    (putPc = "returned" /\ Len(args) > 0) => putResult = Nil

\* put has returned although every goroutine failed.
C9_Witness ==
    /\ putPc = "returned"
    /\ Len(args) > 0
    /\ \A t \in Tasks : task[t].pc = "done" /\ task[t].result # Nil

\* C10: with an empty argument list put starts no goroutine, makes no remote
\* call, and returns the missing-operands error.
C10_NoOperands ==
    Len(args) = 0 =>
        /\ putPc \in {"start", "returned"}
        /\ putPc = "returned" => putResult = "missing operands"
        /\ idx = 1
        /\ waitGroup = 0
        /\ DOMAIN sessions = {}
        /\ DOMAIN objects = {}

\* put has returned from an empty argument list.
C10_Witness ==
    /\ Len(args) = 0
    /\ putPc = "returned"
    /\ putResult # "none"

\* C11: with a destination given, the path handed to validatePath for a
\* source argument is the destination without its trailing slash, a slash,
\* and the base name of the argument.
C11_DestinationBaseName ==
    \A t \in Tasks :
        task[t].checked # Nil =>
            task[t].checked =
                TrimSuffix(destination, <<Slash>>) \o <<Slash>> \o Base(args[t])

\* The goroutine has built its commitInfo (lines 108-112).
HasCommitInfo(t) ==
    \/ task[t].pc \in {"start", "l44", "upload"}
    \/ task[t].pc = "done" /\ calls[t] # <<>>

\* C12 as stated: the timestamp in the commit metadata is the greatest
\* whole second not greater than the current time.
C12_RoundedDown ==
    \A t \in Tasks :
        HasCommitInfo(t) =>
            LET cm == task[t].commitInfo.clientModified
            IN  /\ cm % TicksPerSecond = 0
                /\ cm <= now
                /\ now < cm + TicksPerSecond

\* C12 amended: the timestamp in the commit metadata is the whole second
\* nearest to the current time, the later one when two are equally near.
C12_RoundedToNearest ==
    \A t \in Tasks :
        HasCommitInfo(t) =>
            LET cm == task[t].commitInfo.clientModified
            IN  /\ cm % TicksPerSecond = 0
                /\ 2 * (now - cm) < TicksPerSecond
                /\ 2 * (cm - now) <= TicksPerSecond

\* An upload was committed with a timestamp later than the current time.
C12_Witness ==
    \E t \in Tasks :
        /\ task[t].pc = "done"
        /\ task[t].result = Nil
        /\ task[t].commitInfo.clientModified > now

\* The session calls of goroutine t, in order.
SessionCalls(t) ==
    SelectSeq(calls[t], LAMBDA c : c.op \in {"start", "append", "finish"})

\* C13: in a chunked upload UploadSessionStart is the first call and made
\* once, the k-th UploadSessionAppend carries the session id start returned
\* and offset k * chunkSize, UploadSessionFinish carries the same id and the
\* final offset, and it is the last session call.
C13_SessionOrder ==
    \A t \in Tasks :
        LET sc == SessionCalls(t)
        IN  /\ (task[t].size > chunkSize /\ calls[t] # <<>>) =>
                  calls[t][1].op = "start"
            /\ \A i \in 1..Len(sc) :
                  /\ (sc[i].op = "start") <=> (i = 1)
                  /\ sc[i].op # "start" =>
                        /\ sc[1].ok
                        /\ sc[i].sid = task[t].sessionId
                        /\ sc[i].sid \in DOMAIN sessions
                        /\ sc[i].offset = (i - 1) * chunkSize
                  /\ sc[i].op = "finish" => i = Len(sc)

\* A session went through start, an append and finish.
C13_Witness ==
    \E t \in Tasks :
        LET sc == SessionCalls(t)
        IN  /\ Len(sc) >= 3
            /\ sc[2].op = "append"
            /\ sc[Len(sc)].op = "finish"
            /\ sc[Len(sc)].ok

\* The start and append calls of goroutine t that succeeded.
AckedCalls(t) ==
    SelectSeq(calls[t], LAMBDA c : c.ok /\ c.op \in {"start", "append"})

\* C14: while a chunked upload runs, written is the number of bytes the
\* remote side holds for the session; written is chunkSize for the
\* successful start plus chunkSize for every successful append, and the
\* offset of every append and finish cursor is the number of bytes the calls
\* before it delivered.
C14_WrittenIsAcked ==
    \A t \in Tasks :
        /\ task[t].pc = "l44" =>
              /\ task[t].sessionId \in DOMAIN sessions
              /\ task[t].written = Len(sessions[task[t].sessionId].data)
        /\ task[t].written = chunkSize * Len(AckedCalls(t))
        /\ \A i \in 1..Len(calls[t]) :
              calls[t][i].op \in {"append", "finish"} =>
                  calls[t][i].offset = Carried(calls[t], i - 1)

\* A session whose start and one append were acknowledged is still open.
C14_Witness ==
    \E t \in Tasks :
        /\ task[t].pc = "l44"
        /\ task[t].written = 2 * chunkSize
        /\ Len(sessions[task[t].sessionId].data) = 2 * chunkSize

\* The error a failed call of each kind makes the goroutine return.
ErrorOf(op) ==
    CASE op = "start"  -> "SessionStartError"
      [] op = "append" -> "SessionAppendError"
      [] op = "finish" -> "SessionFinishError"
      [] op = "upload" -> "Did not upload"

\* C15: a goroutine that has an error has returned; a failed remote call is
\* the goroutine's last call and its error is what the goroutine returns; a
\* goroutine whose validation, open or stat failed has made no remote call.
C15_FailFast ==
    \A t \in Tasks :
        /\ task[t].result # "none" => task[t].pc = "done"
        /\ \A i \in 1..Len(calls[t]) :
              ~calls[t][i].ok =>
                  /\ i = Len(calls[t])
                  /\ task[t].result = ErrorOf(calls[t][i].op)
        /\ task[t].result \in {"PathValidationError", "SourceOpenError",
                               "SourceStatError"} => calls[t] = <<>>
        /\ ~OwnValidationOk(t) =>
              /\ calls[t] = <<>>
              /\ task[t].contents = "none"
              /\ task[t].pc = "done" => task[t].result = "PathValidationError"

\* A goroutine has returned on a failed append, after a successful start.
C15_Witness ==
    \E t \in Tasks :
        /\ task[t].pc = "done"
        /\ Len(calls[t]) >= 2
        /\ calls[t][1].ok
        /\ calls[t][Len(calls[t])].op = "append"
        /\ ~calls[t][Len(calls[t])].ok
        /\ task[t].result = "SessionAppendError"

\* Goroutine t is in uploadChunked between two calls.
InLoop(t) == t \in Tasks /\ task[t].pc = "l44"

\* Goroutine t has left the loop: finish was called, or an append failed.
LoopLeft(t) ==
    /\ t \in Tasks
    /\ \E i \in 1..Len(calls[t]) :
          \/ calls[t][i].op = "finish"
          \/ calls[t][i].op = "append" /\ ~calls[t][i].ok

\* What the loop keeps true of the unsent bytes S - written.
LoopRemaining ==
    \A t \in Tasks :
        LET S == task[t].size
        IN  /\ task[t].pc = "l44" => S - task[t].written >= 1
            /\ \A i \in 1..Len(calls[t]) :
                  /\ calls[t][i].op = "append" =>
                        /\ S - calls[t][i].offset > chunkSize
                        /\ calls[t][i - 1].op = "append" =>
                              S - calls[t][i].offset =
                                  (S - calls[t][i - 1].offset) - chunkSize
                  /\ calls[t][i].op = "finish" =>
                        /\ S - calls[t][i].offset >= 1
                        /\ S - calls[t][i].offset <= chunkSize

C17_HandlesReleased ==
    \A t \in Tasks :
        /\ task[t].contents = "open" =>
              /\ task[t].pc \in {"stat", "start", "l44", "upload"}
              /\ putPc # "returned"
        /\ (task[t].pc = "done" /\ task[t].result \notin
                {"PathValidationError", "SourceOpenError"}) =>
              task[t].contents = "closed"

\* put has returned from a goroutine that failed at stat and one that
\* uploaded its file, both with their files closed.
C17_Witness ==
    /\ putPc = "returned"
    /\ \E t, u \in Tasks :
          /\ task[t].result = "SourceStatError"
          /\ task[t].contents = "closed"
          /\ task[u].result = Nil
          /\ task[u].contents = "closed"

====
